---- MODULE Spec2Model ----
(***************************************************************************)
(* A model of src/main.py: the Google Maps scraper.  main() is modelled as *)
(* one sequential process whose position is pc; the browser page is the    *)
(* environment: the number of listing anchors it shows (page_items) may    *)
(* change between any two steps of the program.                            *)
(*                                                                         *)
(* Python values are tagged records, so that None, "", an int and a float  *)
(* stay distinct; a Python str is a sequence of one-character strings.     *)
(***************************************************************************)
EXTENDS Integers, Sequences, FiniteSets, TLC

(***************************************************************************)
(* Python values                                                           *)
(***************************************************************************)
None == [t |-> "None"]
Str(s) == [t |-> "str", v |-> s]
PInt(n) == [t |-> "int", v |-> n]
PFloat(m, e) == [t |-> "float", m |-> m, e |-> e]
Exc(kind) == [t |-> "exc", v |-> kind]

IsExc(x) == x.t = "exc"
IsNone(x) == x.t = "None"

\* a Python str literal, one character per element
Digits == {"0", "1", "2", "3", "4", "5", "6", "7", "8", "9"}
DigitVal(c) ==
  CASE c = "0" -> 0 [] c = "1" -> 1 [] c = "2" -> 2 [] c = "3" -> 3
    [] c = "4" -> 4 [] c = "5" -> 5 [] c = "6" -> 6 [] c = "7" -> 7
    [] c = "8" -> 8 [] c = "9" -> 9

(***************************************************************************)
(* str methods used by the program                                         *)
(***************************************************************************)
HasPrefixAt(s, sep, i) ==
  /\ i + Len(sep) - 1 <= Len(s)
  /\ \A k \in 1..Len(sep) : s[i + k - 1] = sep[k]

\* index of the first occurrence of sep in s, 0 when there is none
Find(s, sep) ==
  LET hits == {i \in 1..Len(s) : HasPrefixAt(s, sep, i)}
  IN IF hits = {} THEN 0 ELSE CHOOSE i \in hits : \A j \in hits : i <= j

\* str.split(sep): the pieces between the occurrences of sep, empty ones kept
RECURSIVE Split(_, _)
Split(s, sep) ==
  LET i == Find(s, sep)
  IN IF i = 0 THEN <<s>>
     ELSE <<SubSeq(s, 1, i - 1)>> \o Split(SubSeq(s, i + Len(sep), Len(s)), sep)

IsSpace(c) == c \in {" ", "\n"}

\* str.strip()
RECURSIVE Strip(_)
Strip(s) ==
  IF s = <<>> THEN s
  ELSE IF IsSpace(s[1]) THEN Strip(Tail(s))
  ELSE IF IsSpace(s[Len(s)]) THEN Strip(SubSeq(s, 1, Len(s) - 1))
  ELSE s

\* str.split() without argument: the runs of non-whitespace characters
RECURSIVE SplitWhitespace(_)
SplitWhitespace(s) ==
  LET t == Strip(s)
      ws == {i \in 1..Len(t) : IsSpace(t[i])}
      i == IF ws = {} THEN 0 ELSE CHOOSE a \in ws : \A b \in ws : a <= b
  IN IF t = <<>> THEN <<>>
     ELSE IF i = 0 THEN <<t>>
     ELSE <<SubSeq(t, 1, i - 1)>> \o SplitWhitespace(SubSeq(t, i + 1, Len(t)))

\* str.replace(old, new) for a one-character old
RECURSIVE Replace(_, _, _)
Replace(s, old, new) ==
  IF s = <<>> THEN <<>>
  ELSE (IF s[1] = old THEN new ELSE <<s[1]>>) \o Replace(Tail(s), old, new)

RECURSIVE DigitsValue(_)
DigitsValue(s) ==
  IF s = <<>> THEN 0 ELSE 10 * DigitsValue(SubSeq(s, 1, Len(s) - 1)) + DigitVal(s[Len(s)])

AllDigits(s) == \A i \in 1..Len(s) : s[i] \in Digits

Unsigned(s) == IF s # <<>> /\ s[1] \in {"-", "+"} THEN Tail(s) ELSE s
Sign(s) == IF s # <<>> /\ s[1] = "-" THEN -1 ELSE 1

\* int(str): optional sign and decimal digits, surrounding whitespace ignored
PyInt(s) ==
  LET u == Unsigned(Strip(s))
  IN IF u # <<>> /\ AllDigits(u) THEN PInt(Sign(Strip(s)) * DigitsValue(u))
     ELSE Exc("ValueError")

RECURSIVE StripZeros(_)
StripZeros(s) ==
  IF s # <<>> /\ s[Len(s)] = "0" THEN StripZeros(SubSeq(s, 1, Len(s) - 1)) ELSE s

RECURSIVE Pow10(_)
Pow10(n) == IF n = 0 THEN 1 ELSE 10 * Pow10(n - 1)

\* float(str) for decimal literals: optional sign, digits with at most one ".";
\* the value is m / 10^e with e minimal, so "1.50" and "1.5" are the same float
PyFloat(s) ==
  LET u == Unsigned(Strip(s))
      parts == Split(u, <<".">>)
      ip == parts[1]
      fp == IF Len(parts) = 2 THEN StripZeros(parts[2]) ELSE <<>>
      ok == /\ Len(parts) <= 2
            /\ AllDigits(ip)
            /\ Len(parts) = 2 => AllDigits(parts[2])
            /\ Len(ip) + (IF Len(parts) = 2 THEN Len(parts[2]) ELSE 0) > 0
  IN IF ok
       THEN PFloat(Sign(Strip(s)) * (DigitsValue(ip) * Pow10(Len(fp)) + DigitsValue(fp)),
                  Len(fp))
       ELSE Exc("ValueError")

(***************************************************************************)
(* extract_coordinates_from_url                                            *)
(***************************************************************************)
extract_coordinates_from_url(url) ==
  LET afterMarker == Split(url, <<"/", "@">>)
      coordinates == Split(afterMarker[Len(afterMarker)], <<"/">>)[1]
      tokens == Split(coordinates, <<",">>)
      lat == PyFloat(tokens[1])
  IN IF IsExc(lat) THEN lat
     ELSE IF Len(tokens) < 2 THEN Exc("IndexError")
     ELSE LET lon == PyFloat(tokens[2])
          IN IF IsExc(lon) THEN lon ELSE [t |-> "tuple", lat |-> lat, lon |-> lon]

(***************************************************************************)
(* What the page shows for one listing: the aria-label of the handle, the  *)
(* texts matched by each detail-pane query (no element of the sequence: no *)
(* match), the aria-labels of the rating images, and the page URL after    *)
(* the click.                                                              *)
(***************************************************************************)
Truthy(x) ==
  CASE x.t = "None" -> FALSE
    [] x.t = "str" -> x.v # <<>>
    [] x.t = "int" -> x.v # 0

\* class Business: every field starts as None
Business ==
  [t |-> "Business", name |-> None, address |-> None, website |-> None, phone_number |-> None,
   reviews_count |-> None, reviews_average |-> None,
   latitude |-> None, longitude |-> None, url |-> None]

\* ExtractName without the length test: the attribute is stored as read
ExtractNameAsRead(label) == label

\* lines 192-195: len(None) raises TypeError
ExtractName(label) ==
  IF IsNone(label) THEN Exc("TypeError")
  ELSE IF Len(label.v) >= 1 THEN label ELSE Str(<<>>)

\* lines 203-216: locator.count() > 0, then locator.all()[0].inner_text()
ExtractText(matches) ==
  IF Len(matches) > 0 THEN Str(matches[1]) ELSE Str(<<>>)

\* ExtractReviewsCount with 0 for a listing without review count
ExtractReviewsCountZero(matches) ==
  IF Len(matches) > 0
    THEN IF Len(matches) > 1 THEN Exc("StrictModeViolation")
         ELSE IF SplitWhitespace(matches[1]) = <<>> THEN Exc("IndexError")
         ELSE PyInt(Strip(Replace(SplitWhitespace(matches[1])[1], ",", <<>>)))
    ELSE PInt(0)

\* lines 218-223: locator.inner_text() is strict (one match), then
\* int(text.split()[0].replace(',', '').strip())
ExtractReviewsCount(matches) ==
  IF Len(matches) > 0
    THEN IF Len(matches) > 1 THEN Exc("StrictModeViolation")
         ELSE IF SplitWhitespace(matches[1]) = <<>> THEN Exc("IndexError")
         ELSE PyInt(Strip(Replace(SplitWhitespace(matches[1])[1], ",", <<>>)))
    ELSE Str(<<>>)

\* lines 225-230: locator.get_attribute("aria-label") is strict, then
\* float(label.split()[0].replace(',', '.').strip())
ExtractReviewsAverage(matches) ==
  IF Len(matches) > 0
    THEN IF Len(matches) > 1 THEN Exc("StrictModeViolation")
         ELSE IF IsNone(matches[1]) THEN Exc("AttributeError")
         ELSE IF SplitWhitespace(matches[1].v) = <<>> THEN Exc("IndexError")
         ELSE PyFloat(Strip(Replace(SplitWhitespace(matches[1].v)[1], ",", <<".">>)))
    ELSE Str(<<>>)

\* lines 190-234, the body of the try block after the click: the Business built
\* from what the page shows, or the first exception raised on the way
ExtractBusiness(item) ==
  LET name == ExtractName(item.label)
      count == ExtractReviewsCount(item.review_count)
      average == ExtractReviewsAverage(item.reviews_average)
      coords == extract_coordinates_from_url(item.url)
  IN IF IsExc(name) THEN name
     ELSE IF IsExc(count) THEN count
     ELSE IF IsExc(average) THEN average
     ELSE IF IsExc(coords) THEN coords
     ELSE [Business EXCEPT !.name = name,
                           !.address = ExtractText(item.address),
                           !.website = ExtractText(item.website),
                           !.phone_number = ExtractText(item.phone_number),
                           !.reviews_count = count,
                           !.reviews_average = average,
                           !.latitude = coords.lat,
                           !.longitude = coords.lon,
                           !.url = Str(item.url)]

(***************************************************************************)
(* Bounds of the model and constants of the program                        *)
(***************************************************************************)
\* line 104: the target when --total is absent (or 0)
DefaultTotal == 1000000
\* the listing counts 0..MaxItems the page may show (besides DefaultTotal)
MaxItems == 2
\* the --total values 0..MaxTotal tried
MaxTotal == 2
\* a captured list longer than this is not iterated by the model
MaxExtract == 9
\* the number of most recent poll readings of a term that polls remembers
PollWindow == 5

(***************************************************************************)
(* Inputs: command lines, input.txt, and what the page may show            *)
(***************************************************************************)
Term0 == <<"t", "e", "a", " ", "b", "a", "r">>
Line1 == <<"i", "n", "n", "\n">>
Line2 == <<"z", "o", "o", " ", "x", "\n">>

NoFile == [exists |-> FALSE, lines |-> <<>>]
File(lines) == [exists |-> TRUE, lines |-> lines]
SearchArgs == {None, Str(<<>>), Str(Term0)}
TotalArgs == {None} \cup {PInt(n) : n \in 0..MaxTotal}

UrlZoom == <<"h", ":", "/", "/", "x", "/", "p", "/", "@", "1", "2", ".", "5", ",",
             "-", "9", ",", "1", "5", "z">>
UrlPath == <<"x", "/", "@", "3", ",", "4", ".", "0", "/", "d">>
UrlNoMarker == <<"h", ":", "/", "/", "x", "/", "p">>
UrlBare == <<"1", ",", "2">>
UrlOneToken == <<"x", "/", "@", "1">>
UrlNotNumber == <<"x", "/", "@", "z", ",", "2">>
UrlEmpty == <<>>

TextAddress == <<"1", " ", "s", "t">>
TextWebsite == <<"w", ".", "x">>
TextPhone == <<"5", "5", "5">>
TextReviews == <<"1", ",", "2", "3", "4", " ", "r">>
TextStars == <<"4", ",", "5", " ", "s">>

FullItem ==
  [label |-> Str(<<"p", "u", "b">>), address |-> <<TextAddress>>,
   website |-> <<TextWebsite>>, phone_number |-> <<TextPhone>>,
   review_count |-> <<TextReviews>>, reviews_average |-> <<Str(TextStars)>>,
   url |-> UrlZoom]

NoLabelItem == [FullItem EXCEPT !.label = None]

\* every combination of present and absent detail-pane elements
PresenceItems ==
  {[FullItem EXCEPT !.address = a, !.website = w, !.phone_number = p,
                    !.review_count = c, !.reviews_average = r] :
     a \in {<<>>, <<TextAddress>>}, w \in {<<>>, <<TextWebsite>>},
     p \in {<<>>, <<TextPhone>>}, c \in {<<>>, <<TextReviews>>},
     r \in {<<>>, <<Str(TextStars)>>}}

\* one field of FullItem changed to each other shape the page can give it
VariantItems ==
  {[FullItem EXCEPT !.label = l] : l \in {None, Str(<<>>)}}
  \cup {[FullItem EXCEPT !.address = <<<<>>>>]}
  \cup {[FullItem EXCEPT !.review_count = c] :
          c \in {<<<<"0">>>>, <<<<"n", "o">>>>, <<<<" ">>>>, <<TextReviews, <<"7">>>>}}
  \cup {[FullItem EXCEPT !.reviews_average = r] :
          r \in {<<None>>, <<Str(<<"5">>)>>, <<Str(<<"n", "o">>)>>,
                 <<Str(TextStars), Str(TextStars)>>}}
  \cup {[FullItem EXCEPT !.url = u] :
          u \in {UrlPath, UrlNoMarker, UrlBare, UrlOneToken, UrlNotNumber, UrlEmpty}}

FieldItems == PresenceItems \cup VariantItems

\* the runs explored: any command line naming at most one term against a small
\* page; a two-line input.txt; one term against a page showing 5, 8 or 9
\* listings; one term against every kind of listing
MainWorld ==
  [name |-> "main", sizes |-> (0..MaxItems) \cup {DefaultTotal},
   items |-> {FullItem, NoLabelItem}]
TermsWorld == [name |-> "terms", sizes |-> {0, 1, 2}, items |-> {FullItem}]
PollWorld == [name |-> "polls", sizes |-> {5, 8, 9}, items |-> {FullItem}]
FieldWorld == [name |-> "fields", sizes |-> {1, 2}, items |-> FieldItems]

Runs ==
  {[world |-> MainWorld, args |-> a, input_file |-> f] :
     a \in [search : SearchArgs, total : TotalArgs],
     f \in {NoFile, File(<<>>), File(<<Line1>>)}}
  \cup {[world |-> TermsWorld, args |-> a, input_file |-> File(<<Line1, Line2>>)] :
          a \in [search : {None, Str(Term0)}, total : {None, PInt(1)}]}
  \cup {[world |-> w, args |-> [search |-> Str(Term0), total |-> None],
         input_file |-> NoFile] : w \in {PollWorld, FieldWorld}}

(***************************************************************************)
(* State                                                                   *)
(***************************************************************************)
VARIABLES
  pc,                   \* the position of main()
  world,                \* what the page may show in this run (never changes)
  args,                 \* args.search, args.total as parsed (line 95)
  input_file,           \* input.txt: whether it exists, and its lines
  browser,              \* "none", "open", "closed"
  page_items,           \* the listing anchors the page showed at the latest query
  search_list, total, search_for_index,
  previously_counted, same_count_attempts, current_count,
  listings,             \* the handles captured: positions lo..hi of the anchors
  li,                   \* the position the for loop over listings is at
  business_list,        \* BusinessList.business_list
  error_log,            \* logger.error lines since business_list was created
  saved,                \* the files written, in order
  polls,                \* history: the last PollWindow readings of this loop
  loop_state            \* history: how the discovery loop of this term stands

vars ==
  <<pc, world, args, input_file, browser, page_items, search_list, total, search_for_index,
    previously_counted, same_count_attempts, current_count, listings, li,
    business_list, error_log, saved, polls, loop_state>>

Min(a, b) == IF a <= b THEN a ELSE b

Init ==
  /\ pc = "main"
  /\ \E run \in Runs :
       /\ world = run.world
       /\ args = run.args
       /\ input_file = run.input_file
  /\ browser = "none"
  /\ page_items = 0
  \* the locals of main() are unbound until assigned: each holds an empty
  \* value of its type until then and is not read before its assignment
  /\ search_list = <<>>
  /\ total = 0
  /\ search_for_index = 0
  /\ previously_counted = 0
  /\ same_count_attempts = 0
  /\ current_count = 0
  /\ listings = [lo |-> 1, hi |-> 0, parent |-> FALSE]
  /\ li = 1
  /\ business_list = <<>>
  /\ error_log = <<>>
  /\ saved = <<>>
  /\ polls = <<>>
  /\ loop_state = "NONE"

(***************************************************************************)
(* main(): input (lines 92-121)                                            *)
(***************************************************************************)
\* lines 97-98 and 106-117
ReadSearchList(a, f) ==
  IF Truthy(a.search) THEN <<a.search.v>>
  ELSE IF f.exists THEN f.lines ELSE <<>>

\* lines 100-104
ParseTotal(a) == IF Truthy(a.total) THEN a.total.v ELSE DefaultTotal

\* NoSearches with the test of line 119 left out
NoSearchesUnchecked(a, sl) == FALSE

\* lines 106 and 119: no usable --search and no line read
NoSearches(a, sl) == ~Truthy(a.search) /\ Len(sl) = 0

ParseArgs ==
  /\ pc = "main"
  /\ search_list' = ReadSearchList(args, input_file)
  /\ total' = ParseTotal(args)
  /\ pc' = IF NoSearches(args, search_list') THEN "exit_config" ELSE "launch"
  /\ UNCHANGED <<world, args, input_file, page_items, browser, search_for_index,
                 previously_counted, same_count_attempts, current_count,
                 listings, li, business_list, error_log, saved, polls, loop_state>>

(***************************************************************************)
(* main(): scraping (lines 126-250)                                        *)
(***************************************************************************)
\* lines 126-136: launch the browser, open the page, go to the maps URL
Launch ==
  /\ pc = "launch"
  /\ browser' = "open"
  /\ search_for_index' = 0
  /\ pc' = "for_search"
  /\ UNCHANGED <<world, args, input_file, page_items, search_list, total,
                 previously_counted, same_count_attempts, current_count,
                 listings, li, business_list, error_log, saved, polls, loop_state>>

\* the loop resumed after an error of the Page Session
ForSearchAfterError ==
  /\ pc \in {"for_search", "raised"}
  /\ pc' = IF search_for_index < Len(search_list) THEN "search" ELSE "close"
  /\ UNCHANGED <<world, args, input_file, page_items, browser, search_list, total,
                 search_for_index, previously_counted, same_count_attempts,
                 current_count, listings, li, business_list, error_log, saved,
                 polls, loop_state>>

\* line 138: the next search term, or the end of the loop
ForSearch ==
  /\ pc = "for_search"
  /\ pc' = IF search_for_index < Len(search_list) THEN "search" ELSE "close"
  /\ UNCHANGED <<world, args, input_file, page_items, browser, search_list, total,
                 search_for_index, previously_counted, same_count_attempts,
                 current_count, listings, li, business_list, error_log, saved,
                 polls, loop_state>>

\* search_for stuck at the first term
FirstSearch == search_list[1]

search_for == search_list[search_for_index + 1]

\* lines 139-145: fill the search box, press Enter, wait
EnterSearch ==
  /\ pc = "search"
  /\ pc' = "hover"
  /\ UNCHANGED <<world, args, input_file, page_items, browser, search_list, total,
                 search_for_index, previously_counted, same_count_attempts,
                 current_count, listings, li, business_list, error_log, saved,
                 polls, loop_state>>

\* lines 148-151: hover the first listing anchor (a timeout error when the page
\* shows none), then start the counters
Hover ==
  /\ pc = "hover"
  /\ \E n \in world.sizes :
       IF n = 0
         THEN /\ pc' = "raised"
              /\ page_items' = n
              /\ UNCHANGED <<previously_counted, same_count_attempts, polls,
                             loop_state>>
         ELSE /\ pc' = "scroll"
              /\ page_items' = n
              /\ previously_counted' = 0
              /\ same_count_attempts' = 0
              /\ polls' = <<>>
              /\ loop_state' = "POLLING"
  /\ UNCHANGED <<world, args, input_file, browser, search_list, total,
                 search_for_index, current_count, listings, li, business_list,
                 error_log, saved>>

\* lines 154-155: scroll down and wait
Scroll ==
  /\ pc = "scroll"
  /\ pc' = "count"
  /\ UNCHANGED <<world, args, input_file, page_items, browser, search_list, total,
                 search_for_index, previously_counted, same_count_attempts,
                 current_count, listings, li, business_list, error_log, saved,
                 polls, loop_state>>

\* Decide with the unchanged readings added up across a change
DecideNoReset(cur, tot, prev, same) ==
  IF cur >= tot
    THEN [next |-> "capture_total", same |-> same, prev |-> prev]
  ELSE IF cur = prev
    THEN IF same + 1 >= 3
           THEN [next |-> "capture_all", same |-> same + 1, prev |-> prev]
           ELSE [next |-> "scroll", same |-> same + 1, prev |-> cur]
  ELSE [next |-> "scroll", same |-> same, prev |-> cur]

\* Decide with a smaller reading taken for an unchanged one
DecideShrinkIsStable(cur, tot, prev, same) ==
  IF cur >= tot
    THEN [next |-> "capture_total", same |-> same, prev |-> prev]
  ELSE IF cur <= prev
    THEN IF same + 1 >= 3
           THEN [next |-> "capture_all", same |-> same + 1, prev |-> prev]
           ELSE [next |-> "scroll", same |-> same + 1, prev |-> cur]
  ELSE [next |-> "scroll", same |-> 0, prev |-> cur]

\* Decide with the reading remembered before the branch
DecideRemembersFirst(cur, tot, prev, same) ==
  IF cur >= tot
    THEN [next |-> "capture_total", same |-> same, prev |-> cur]
  ELSE IF cur = prev
    THEN IF same + 1 >= 3
           THEN [next |-> "capture_all", same |-> same + 1, prev |-> cur]
           ELSE [next |-> "scroll", same |-> same + 1, prev |-> cur]
  ELSE [next |-> "scroll", same |-> 0, prev |-> cur]

\* Decide without line 179: the reading is never remembered
DecideForgets(cur, tot, prev, same) ==
  IF cur >= tot
    THEN [next |-> "capture_total", same |-> same, prev |-> prev]
  ELSE IF cur = prev
    THEN IF same + 1 >= 3
           THEN [next |-> "capture_all", same |-> same + 1, prev |-> prev]
           ELSE [next |-> "scroll", same |-> same + 1, prev |-> prev]
  ELSE [next |-> "scroll", same |-> 0, prev |-> prev]

\* Decide with exhaustion declared at the second unchanged reading
DecideTwoStrikes(cur, tot, prev, same) ==
  IF cur >= tot
    THEN [next |-> "capture_total", same |-> same, prev |-> prev]
  ELSE IF cur = prev
    THEN IF same + 1 >= 2
           THEN [next |-> "capture_all", same |-> same + 1, prev |-> prev]
           ELSE [next |-> "scroll", same |-> same + 1, prev |-> cur]
  ELSE [next |-> "scroll", same |-> 0, prev |-> cur]

\* lines 159-179: what the loop does with a reading
Decide(cur, tot, prev, same) ==
  IF cur >= tot
    THEN [next |-> "capture_total", same |-> same, prev |-> prev]
  ELSE IF cur = prev
    THEN IF same + 1 >= 3
           THEN [next |-> "capture_all", same |-> same + 1, prev |-> prev]
           ELSE [next |-> "scroll", same |-> same + 1, prev |-> cur]
  ELSE [next |-> "scroll", same |-> 0, prev |-> cur]

Remember(window, n) ==
  IF Len(window) < PollWindow THEN Append(window, n) ELSE Append(Tail(window), n)

\* lines 157-180: one reading of the number of listing anchors, and the branch
Count ==
  /\ pc = "count"
  /\ \E n \in world.sizes :
       LET d == Decide(n, total, previously_counted, same_count_attempts)
       IN /\ page_items' = n
          /\ current_count' = n
          /\ same_count_attempts' = d.same
          /\ previously_counted' = d.prev
          /\ pc' = d.next
          /\ polls' = Remember(polls, n)
          /\ loop_state' = CASE d.next = "capture_total" -> "TARGET_REACHED"
                             [] d.next = "capture_all" -> "EXHAUSTED"
                             [] OTHER -> "POLLING"
  /\ UNCHANGED <<world, args, input_file, browser, search_list, total,
                 search_for_index, listings, li, business_list, error_log, saved>>

\* line 161-162: locator.all()[:total], each mapped to its parent element
FirstTotal(m, tot) == [lo |-> 1, hi |-> Min(m, tot), parent |-> TRUE]
\* line 172: locator.all()
AllListings(m) == [lo |-> 1, hi |-> m, parent |-> FALSE]

ListLen(l) == l.hi - l.lo + 1

\* one list object shared by every BusinessList
BusinessListShared == business_list

\* lines 44 and 182: BusinessList(), its business_list a new empty list
BusinessList == <<>>

\* lines 161-164 and 182: a second query of the anchors, of which there are m now
CaptureTotal ==
  /\ pc = "capture_total"
  /\ \E m \in world.sizes : page_items' = m /\ listings' = FirstTotal(m, total)
  /\ li' = listings'.lo
  /\ business_list' = BusinessList
  /\ error_log' = <<>>
  /\ polls' = <<>>
  /\ pc' = "for_listing"
  /\ UNCHANGED <<world, args, input_file, browser, search_list, total,
                 search_for_index, previously_counted, same_count_attempts,
                 current_count, saved, loop_state>>

\* lines 172-174 and 182
CaptureAll ==
  /\ pc = "capture_all"
  /\ \E m \in world.sizes : page_items' = m /\ listings' = AllListings(m)
  /\ li' = listings'.lo
  /\ business_list' = BusinessList
  /\ error_log' = <<>>
  /\ polls' = <<>>
  /\ pc' = "for_listing"
  /\ UNCHANGED <<world, args, input_file, browser, search_list, total,
                 search_for_index, previously_counted, same_count_attempts,
                 current_count, saved, loop_state>>

\* nothing shown: the click on the handle failed
NoItem ==
  [label |-> None, address |-> <<>>, website |-> <<>>, phone_number |-> <<>>,
   review_count |-> <<>>, reviews_average |-> <<>>, url |-> <<>>]

\* line 236; the entry also notes the handle the Business was read from and
\* what the page showed for it
Appended(bl, handle, item, business) ==
  Append(bl, [handle |-> handle, shown |-> item, business |-> business])

\* the except clause without its log line
LoggedNothing(log, handle, item, e) == log

\* line 239; the entry also notes the handle and what the page showed for it
Logged(log, handle, item, e) ==
  Append(log, [handle |-> handle, shown |-> item, error |-> e.v])

\* lines 186-188: the click, which raises a timeout error when it fails
Clicked(ok, item) == IF ok THEN ExtractBusiness(item) ELSE Exc("TimeoutError")

\* NextListing with the try block around the whole loop: a failure ends it
NextListingBreak(i, hi, failed) == IF failed THEN hi + 1 ELSE i + 1

\* lines 185 and 238-239: the except clause ends the iteration only, so the
\* loop goes on to the next listing after a failure as after a success
NextListing(i, hi, failed) == i + 1

\* lines 185-239: one iteration of the loop over listings, or its end
ForListing ==
  /\ pc = "for_listing"
  /\ ListLen(listings) <= MaxExtract
  /\ IF li > listings.hi
       THEN /\ pc' = "save_excel"
            /\ UNCHANGED <<li, business_list, error_log>>
       ELSE \E ok \in BOOLEAN :
            \E item \in IF ok THEN world.items ELSE {NoItem} :
              LET r == Clicked(ok, item)
              IN /\ IF IsExc(r)
                      THEN /\ error_log' = Logged(error_log, li, item, r)
                           /\ UNCHANGED business_list
                      ELSE /\ business_list' = Appended(business_list, li, item, r)
                           /\ UNCHANGED error_log
                 /\ li' = NextListing(li, listings.hi, IsExc(r))
                 /\ UNCHANGED pc
  /\ UNCHANGED <<world, args, input_file, page_items, browser, search_list, total,
                 search_for_index, previously_counted, same_count_attempts,
                 current_count, listings, saved, polls, loop_state>>

\* lines 245-246: f"google_maps_data_{search_for}".replace(' ', '_')
Filename(term) == Replace(<<"google_maps_data_">> \o term, " ", <<"_">>)

\* lines 47-65 and 67-76: the dataframe of the list, written under the name
Written(files, name, ext, bl) ==
  Append(files, [name |-> name, ext |-> ext, rows |-> bl])

\* line 245
SaveExcel ==
  /\ pc = "save_excel"
  /\ saved' = Written(saved, Filename(search_for), "xlsx", business_list)
  /\ pc' = "save_csv"
  /\ UNCHANGED <<world, args, input_file, page_items, browser, search_list, total,
                 search_for_index, previously_counted, same_count_attempts,
                 current_count, listings, li, business_list, error_log, polls,
                 loop_state>>

\* line 246, and on to the next term
SaveCsv ==
  /\ pc = "save_csv"
  /\ saved' = Written(saved, Filename(search_for), "csv", business_list)
  /\ search_for_index' = search_for_index + 1
  /\ pc' = "for_search"
  /\ UNCHANGED <<world, args, input_file, page_items, browser, search_list, total,
                 previously_counted, same_count_attempts, current_count,
                 listings, li, business_list, error_log, polls, loop_state>>

\* lines 248-250
Close ==
  /\ pc = "close"
  /\ browser' = "closed"
  /\ pc' = "exit_ok"
  /\ UNCHANGED <<world, args, input_file, page_items, search_list, total, search_for_index,
                 previously_counted, same_count_attempts, current_count,
                 listings, li, business_list, error_log, saved, polls, loop_state>>

\* a Page Session call outside the try block raises: nothing catches it
SessionPositions ==
  {"launch", "search", "hover", "scroll", "count", "capture_total", "capture_all"}

SessionFailure ==
  /\ pc \in SessionPositions
  /\ pc' = "raised"
  /\ UNCHANGED <<world, args, input_file, page_items, browser, search_list, total,
                 search_for_index, previously_counted, same_count_attempts,
                 current_count, listings, li, business_list, error_log, saved,
                 polls, loop_state>>

Next ==
  \/ ParseArgs
  \/ Launch
  \/ ForSearch
  \/ EnterSearch
  \/ Hover
  \/ Scroll
  \/ Count
  \/ CaptureTotal
  \/ CaptureAll
  \/ ForListing
  \/ SaveExcel
  \/ SaveCsv
  \/ Close
  \/ SessionFailure

Spec == Init /\ [][Next]_vars

\* the program is one sequential process: it takes its next step as long as
\* it has one
FairSpec == Spec /\ WF_vars(Next)

(***************************************************************************)
(* Properties                                                              *)
(***************************************************************************)
\* the positions at which the handles of the current term have been handed on
ExtractionPositions == {"for_listing", "save_excel", "save_csv"}

Last(seq, k) == seq[Len(seq) - k]

\* C1: when the discovery loop ends in TARGET_REACHED, the handles handed on
\* are exactly target many: the first target anchors, in page order.
C1_TargetHandsOnExactlyTarget ==
  (loop_state = "TARGET_REACHED" /\ pc \in ExtractionPositions) =>
    (listings.lo = 1 /\ listings.hi = total)

\* C2 as stated: once the readings of a term are 5, 8, 8, 8 (no --total), the
\* loop has ended in EXHAUSTED.
C2_ExhaustedAfterFourPolls ==
  (polls = <<5, 8, 8, 8>> /\ total = DefaultTotal) => loop_state = "EXHAUSTED"

\* C2 amended: after the readings 5, 8, 8, 8 the loop is still polling, with
\* two unchanged readings counted; a fifth reading of 8 ends it in EXHAUSTED
\* with no further poll, and the handles handed on are all the anchors the
\* capture query finds (8 when the page still shows 8).
C2_ExhaustedAfterFivePolls ==
  /\ (polls = <<5, 8, 8, 8>> /\ total = DefaultTotal) =>
       /\ loop_state = "POLLING"
       /\ same_count_attempts = 2
       /\ pc \in {"scroll", "count", "raised"}
  /\ (polls = <<5, 8, 8, 8, 8>> /\ total = DefaultTotal) =>
       /\ loop_state = "EXHAUSTED"
       /\ pc \in {"capture_all", "raised"}
  /\ (loop_state = "EXHAUSTED" /\ pc \in ExtractionPositions) =>
       /\ listings.lo = 1
       /\ listings.hi = page_items

C2_Witness ==
  /\ polls = <<5, 8, 8, 8, 8>>
  /\ pc = "capture_all"
  /\ total = DefaultTotal

\* C3: the loop is in EXHAUSTED only when each of the three latest polls read
\* the count of the poll before it, so at least four polls were made and the
\* last four readings are equal.
C3_ExhaustedOnlyAfterThreeStablePolls ==
  (loop_state = "EXHAUSTED" /\ pc = "capture_all") =>
    /\ Len(polls) >= 4
    /\ \A k \in 1..3 : Last(polls, k) = Last(polls, 0)

\* the handles of the list whose iteration is over
Processed == listings.lo .. (li - 1)
HandlesOf(seq) == {seq[i].handle : i \in DOMAIN seq}

\* C4: during and after the loop over the listings, every handle gone through
\* has either one Business in the list or one error line, never both; the
\* list is in handle order; and at export every handle has been gone through
\* and the rows written are the list.
C4_FaultIsolationAndOrder ==
  /\ pc \in ExtractionPositions =>
       /\ HandlesOf(business_list) \cup HandlesOf(error_log) = Processed
       /\ HandlesOf(business_list) \cap HandlesOf(error_log) = {}
       /\ Len(business_list) + Len(error_log) = Cardinality(Processed)
       /\ \A i, j \in DOMAIN business_list :
            i < j => business_list[i].handle < business_list[j].handle
  /\ pc \in {"save_excel", "save_csv"} => li = listings.hi + 1
  /\ pc = "save_csv" => saved[Len(saved)].rows = business_list

\* five handles, the click on the third failed, the other four exported in order
C4_Witness ==
  /\ pc = "save_csv"
  /\ ListLen(listings) = 5
  /\ HandlesOf(error_log) = {3}
  /\ Len(saved[Len(saved)].rows) = 4
  /\ \A i \in 1..4 : saved[Len(saved)].rows[i].handle = <<1, 2, 4, 5>>[i]

TextFields == {"name", "address", "website", "phone_number"}

\* a Business as the Record invariant wants it
RecordFilled(b) ==
  /\ b.url.t = "str" /\ b.url.v # <<>>
  /\ b.latitude.t = "float"
  /\ b.longitude.t = "float"
  /\ \A f \in TextFields : b[f].t = "str"
  /\ b.reviews_count.t = "int" \/ b.reviews_count = Str(<<>>)
  /\ b.reviews_average.t = "float" \/ b.reviews_average = Str(<<>>)

\* C5: every Business in the list, and every row written, has a non-empty
\* url and float coordinates, and each other field holds a value or "",
\* never None.
C5_RecordInvariant ==
  /\ \A i \in DOMAIN business_list : RecordFilled(business_list[i].business)
  /\ \A i \in DOMAIN saved : \A j \in DOMAIN saved[i].rows :
       RecordFilled(saved[i].rows[j].business)

\* a Business appended with every optional field defaulted
C5_Witness ==
  \E i \in DOMAIN business_list :
    LET b == business_list[i].business
    IN /\ b.name = Str(<<>>) \/ b.address = Str(<<>>)
       /\ b.reviews_count = Str(<<>>)
       /\ b.url.v # <<>>

\* C6: a listing whose aria-label is absent is never skipped for it: no error
\* line is the TypeError of a clicked listing without label.
C6_AbsentNameNeverFails ==
  \A i \in DOMAIN error_log :
    ~(IsNone(error_log[i].shown.label) /\ error_log[i].error = "TypeError")

ExportsOf(k) ==
  <<[name |-> Filename(search_list[k + 1]), ext |-> "xlsx"],
    [name |-> Filename(search_list[k + 1]), ext |-> "csv"]>>

NameAndExt(file) == [name |-> file.name, ext |-> file.ext]

\* the terms whose export is complete
TermsDone ==
  IF pc \in {"main", "launch", "exit_config"} THEN 0 ELSE search_for_index

C7_Order ==
  /\ Len(saved) = 2 * TermsDone + (IF pc = "save_csv" THEN 1 ELSE 0)
  /\ \A k \in 0..(TermsDone - 1) :
       /\ NameAndExt(saved[2 * k + 1]) = ExportsOf(k)[1]
       /\ NameAndExt(saved[2 * k + 2]) = ExportsOf(k)[2]
       /\ saved[2 * k + 1].rows = saved[2 * k + 2].rows
  /\ pc = "save_csv" => NameAndExt(saved[Len(saved)]) = ExportsOf(search_for_index)[1]
  /\ pc = "exit_ok" => TermsDone = Len(search_list)
  /\ pc \in {"save_excel", "save_csv"} => li = listings.hi + 1

C7_Step ==
  /\ pc = "for_listing" => pc' \in {"for_listing", "save_excel"}
  /\ search_for_index' # search_for_index =>
       /\ pc = "save_csv" \/ pc = "launch"
       /\ pc = "save_csv" => search_for_index' = search_for_index + 1
  /\ \A i \in DOMAIN saved : i \in DOMAIN saved' /\ saved'[i] = saved[i]

\* C7: at every position of term k the exports of the terms before k, and
\* only those, are complete (xlsx then csv, same rows, named after the term);
\* the loop over the listings is left only for the export, whatever failed in
\* it; a file once written is never changed; and a run that reaches its end
\* has exported every term once.
C7_TermsInSequence == []C7_Order /\ [][C7_Step]_vars

\* a two-term run that ends normally although a listing of the second term failed
C7_Witness ==
  /\ pc = "exit_ok"
  /\ Len(search_list) = 2
  /\ Len(saved) = 4
  /\ error_log # <<>>

\* C8: without --total the discovery loop never ends in TARGET_REACHED.
C8_NoTotalNeverTargetReached ==
  args.total = None => loop_state # "TARGET_REACHED"

\* C9: the handles handed on, and the Businesses collected, never exceed the
\* target.
C9_AtMostTarget ==
  pc \in ExtractionPositions =>
    /\ ListLen(listings) <= total
    /\ Len(business_list) <= total

\* C10: without --search and with input.txt absent or empty the program goes
\* from the argument parsing to its exit without opening the browser, and
\* nothing was polled, captured, extracted or written; and the exit for want
\* of searches is taken in no other case than an unusable --search with no
\* line read.
C10_NoInputNoSession ==
  /\ (args.search = None /\ (~input_file.exists \/ input_file.lines = <<>>)) =>
       /\ pc \in {"main", "exit_config"}
       /\ browser = "none"
       /\ page_items = 0
       /\ loop_state = "NONE"
       /\ polls = <<>>
       /\ ListLen(listings) = 0
       /\ business_list = <<>>
       /\ error_log = <<>>
       /\ saved = <<>>
  /\ pc = "exit_config" =>
       /\ ~Truthy(args.search)
       /\ ~input_file.exists \/ input_file.lines = <<>>
       /\ browser = "none"

C10_Witness ==
  /\ pc = "exit_config"
  /\ args.search = None
  /\ ~input_file.exists

\* the '/@' marker of a detail URL
HasMarker(url) == Find(url, <<"/", "@">>) # 0

\* C11: no Business is built from a URL without the '/@' marker: the parser
\* fails on it and the listing is skipped.
C11_UrlWithoutMarkerFails ==
  \A i \in DOMAIN business_list : HasMarker(business_list[i].shown.url)

OptionalFields ==
  {"address", "website", "phone_number", "reviews_count", "reviews_average"}

\* the matches of the query of an optional field of a Business
Matches(item, f) == IF f = "reviews_count" THEN item.review_count ELSE item[f]

NoneOfFive(item) == \A f \in OptionalFields : Matches(item, f) = <<>>

\* C12 as stated: in every Business of the list each optional field is ""
\* exactly when its own query had no match.
C12_EmptyExactlyWhenNoMatch ==
  \A i \in DOMAIN business_list : \A f \in OptionalFields :
    (business_list[i].business[f] = Str(<<>>)) <=>
      (Matches(business_list[i].shown, f) = <<>>)

\* C12 amended: in every Business of the list each optional field is "" when
\* its own query had no match, whatever the other queries matched; with a
\* match, address, website and phone_number are the text of the first match
\* (which may itself be empty) and reviews_count and reviews_average are the
\* number parsed, never "" and never a default; and a clicked listing with
\* none of the five elements, a label and a parsable URL is never skipped.
C12_EmptyWhenNoMatch ==
  /\ \A i \in DOMAIN business_list :
       LET b == business_list[i].business
           item == business_list[i].shown
       IN /\ \A f \in OptionalFields : Matches(item, f) = <<>> => b[f] = Str(<<>>)
          /\ \A f \in {"address", "website", "phone_number"} :
               Matches(item, f) # <<>> => b[f] = Str(Matches(item, f)[1])
          /\ item.review_count # <<>> => b.reviews_count.t = "int"
          /\ item.reviews_average # <<>> => b.reviews_average.t = "float"
          /\ b.latitude.t = "float" /\ b.longitude.t = "float"
          /\ b.url = Str(item.url)
  /\ \A i \in DOMAIN error_log :
       LET item == error_log[i].shown
       IN ~(/\ NoneOfFive(item)
            /\ ~IsNone(item.label)
            /\ ~IsExc(extract_coordinates_from_url(item.url)))

\* Businesses with none, and with only some, of the five elements
C12_Witness ==
  /\ \E i \in DOMAIN business_list :
       /\ NoneOfFive(business_list[i].shown)
       /\ \A f \in OptionalFields : business_list[i].business[f] = Str(<<>>)
       /\ business_list[i].business.url.v # <<>>
  /\ \E i \in DOMAIN business_list :
       /\ business_list[i].business.reviews_count = Str(<<>>)
       /\ business_list[i].business.address # Str(<<>>)
       /\ business_list[i].business.reviews_average.t = "float"

\* a step of Count: a poll that read current_count'
Polled == pc = "count" /\ pc' # "raised"

\* C13: a poll that reads more than the poll before it, and less than total,
\* sets same_count_attempts to 0 and the loop goes on polling, whatever was
\* counted before; after the readings 5, 8, 8, 9 same_count_attempts is 0 and
\* the loop is polling.
C13_Growth ==
  (Polled /\ current_count' > previously_counted /\ current_count' < total)
    => /\ same_count_attempts' = 0
       /\ previously_counted' = current_count'
       /\ pc' = "scroll"
       /\ loop_state' = "POLLING"

C13_GrowthResets ==
  /\ [](polls = <<5, 8, 8, 9>> /\ total > 9
          => same_count_attempts = 0 /\ loop_state = "POLLING")
  /\ [][C13_Growth]_vars

\* the readings 5, 8, 8, 9: an unchanged reading was counted before the growth
C13_Witness ==
  /\ polls = <<5, 8, 8, 9>>
  /\ pc = "scroll"
  /\ same_count_attempts = 0
  /\ previously_counted = 9

\* C16: a first poll that reads total or more ends the loop in TARGET_REACHED
\* after one scroll and one count: same_count_attempts and previously_counted
\* keep the values of lines 150-151, and the next step is the capture, not
\* another poll.
C16_FirstPoll ==
  /\ (Polled /\ polls = <<>> /\ current_count' >= total)
       => /\ pc' = "capture_total"
          /\ loop_state' = "TARGET_REACHED"
          /\ UNCHANGED <<same_count_attempts, previously_counted>>
  /\ pc' = "count" => pc = "scroll"
  /\ pc = "capture_total" => pc' \in {"capture_total", "for_listing", "raised"}

C16_FirstPollTarget ==
  /\ [](Len(polls) = 1 /\ polls[1] >= total
          => /\ loop_state = "TARGET_REACHED"
             /\ pc \in {"capture_total", "raised"}
             /\ same_count_attempts = 0
             /\ previously_counted = 0)
  /\ [][C16_FirstPoll]_vars

\* the first poll reads 2 with --total 2
C16_Witness ==
  /\ polls = <<2>>
  /\ total = 2
  /\ pc = "capture_total"
  /\ loop_state = "TARGET_REACHED"

\* C19: a poll that reads less than the poll before it, and less than total,
\* is handled like growth: same_count_attempts is 0, previously_counted is the
\* smaller reading and the loop goes on polling; same_count_attempts grows,
\* by one, only at a reading equal to previously_counted.
C19_Shrink ==
  /\ (Polled /\ current_count' < previously_counted /\ current_count' < total)
       => /\ same_count_attempts' = 0
          /\ previously_counted' = current_count'
          /\ pc' = "scroll"
          /\ loop_state' = "POLLING"
  /\ same_count_attempts' > same_count_attempts
       => /\ Polled
          /\ current_count' = previously_counted
          /\ same_count_attempts' = same_count_attempts + 1

C14_Raise ==
  /\ pc = "raised" => UNCHANGED vars
  /\ pc' = "raised" =>
       /\ pc \in SessionPositions \cup {"raised"}
       /\ UNCHANGED <<saved, search_for_index, business_list, browser>>
  /\ (pc = "hover" /\ page_items' = 0) => pc' = "raised"

C14_DiscoveryErrorEndsRun ==
  /\ [](pc = "raised" =>
          /\ Len(saved) = 2 * TermsDone
          /\ \A k \in 0..(TermsDone - 1) :
               /\ NameAndExt(saved[2 * k + 1]) = ExportsOf(k)[1]
               /\ NameAndExt(saved[2 * k + 2]) = ExportsOf(k)[2])
  /\ [][C14_Raise]_vars

\* the discovery of the second of two terms raised while polling: the first
\* term's export is there, the second term's is not
C14_Witness ==
  /\ pc = "raised"
  /\ Len(search_list) = 2
  /\ search_for_index = 1
  /\ Len(saved) = 2
  /\ polls # <<>>
  /\ loop_state = "POLLING"

\* C17: before the first poll of every term previously_counted and
\* same_count_attempts are 0, and same_count_attempts never exceeds the polls
\* of the term; before the first listing of every term is read the list is
\* empty; so the rows exported for a term come from its own handles only, at
\* most one row a handle.
C17_FreshPerTerm ==
  /\ (pc \in {"scroll", "count"} /\ polls = <<>>)
       => previously_counted = 0 /\ same_count_attempts = 0
  /\ pc \in {"scroll", "count"} => same_count_attempts <= Len(polls)
  /\ (pc = "for_listing" /\ li = listings.lo)
       => business_list = <<>> /\ error_log = <<>>
  /\ pc \in {"save_excel", "save_csv"} =>
       /\ HandlesOf(business_list) \subseteq listings.lo .. listings.hi
       /\ Len(business_list) = Cardinality(HandlesOf(business_list))

\* the second term's batch at export, after a first term that counted three
\* unchanged readings and exported a row
C17_Witness ==
  /\ search_for_index = 1
  /\ Len(saved) = 2
  /\ saved[1].rows # <<>>
  /\ pc = "save_excel"
  /\ loop_state = "EXHAUSTED"
  /\ Len(business_list) = 1
  /\ ListLen(listings) = 1

\* C18: each pass of the loop over the listings adds either one Business and
\* no error line, or one error line and no Business, for the handle it is at;
\* so when the loop is over the Businesses and the error lines together are
\* as many as the handles captured.
C18_Pass ==
  (pc = "for_listing" /\ li' # li) =>
    /\ li' = li + 1
    /\ \/ /\ Len(business_list') = Len(business_list) + 1
          /\ business_list'[Len(business_list')].handle = li
          /\ error_log' = error_log
       \/ /\ Len(error_log') = Len(error_log) + 1
          /\ error_log'[Len(error_log')].handle = li
          /\ business_list' = business_list

C18_SkipAccounting ==
  /\ [](pc \in {"save_excel", "save_csv"}
          => Len(business_list) + Len(error_log) = ListLen(listings))
  /\ [][C18_Pass]_vars

\* two handles: one read, one skipped
C18_Witness ==
  /\ pc = "save_excel"
  /\ ListLen(listings) = 2
  /\ Len(business_list) = 1
  /\ Len(error_log) = 1

\* the loop of lines 153-180 is running
Polling == pc \in {"scroll", "count"}

\* a poll, not the first of its term, reads what the poll before it read, or
\* total or more
C15_Settled ==
  (Polled /\ polls # <<>>)
    => current_count' = Last(polls, 0) \/ current_count' >= total

C15_Changing ==
  (Polled /\ current_count' # previously_counted /\ current_count' < total)
    => pc' = "scroll"

\* C15: the loop is never running after a reading of total or more, nor after
\* three polls in a row that read what the poll before them read; so if from
\* some poll on every poll reads what the poll before it read, or total or
\* more, the loop is left for good; and a poll that reads, below total, another
\* number than previously_counted is always followed by another scroll, so
\* nothing bounds the polls of a page whose count keeps changing.
C15_EventualTermination ==
  /\ [](Polling /\ polls # <<>> => Last(polls, 0) < total)
  /\ [](Polling /\ Len(polls) >= 4 =>
          ~(/\ Last(polls, 0) = Last(polls, 1)
            /\ Last(polls, 1) = Last(polls, 2)
            /\ Last(polls, 2) = Last(polls, 3)))
  /\ [][C15_Changing]_vars
  /\ (<>[][C15_Settled]_vars => <>[](~Polling))

\* the loop left at the third poll in a row that read 5, after 9
C15_Witness ==
  /\ polls = <<9, 5, 5, 5, 5>>
  /\ pc = "capture_all"
  /\ same_count_attempts = 3

\* the loop is always left in the end
C15_AlwaysTerminates == <>[](~Polling)

====
